---------------------------- MODULE Spec2Model ----------------------------
(***************************************************************************)
(* A model of src/app.py: the Flask chat responder (/chatgpt) and the CRUD *)
(* surface over the TrainingData table (/add, /edit/<id>, /delete/<id>).   *)
(*                                                                         *)
(* Text is a sequence of Unicode code points, so that lower-casing, LIKE   *)
(* matching, whitespace stripping and file-name handling are computed and  *)
(* not assumed.  A nullable column or an optional form part is a sequence  *)
(* of length 0 (None / part not in the request) or 1 (the value).          *)
(***************************************************************************)
EXTENDS Integers, Sequences, FiniteSets

VARIABLES
    store,   \* the TrainingData table: id -> row
    blobs,   \* the paths written under UPLOAD_FOLDER
    sess,    \* per worker: the row an /edit request has loaded, not yet committed
    last     \* the request that finished last: what it sent and how it ended

vars == <<store, blobs, sess, last>>

(***************************** bounds and pools ****************************)

\* ids are 1..MaxId: /add is not taken once the next id would exceed it
MaxId == 2
\* inbound chat texts have at most MaxLen characters
MaxLen == 2

Ids == 1..MaxId

None == << >>
Some(v) == <<v>>

\* all texts over an alphabet, up to a length
TextsOver(alphabet, n) == UNION {[1..k -> alphabet] : k \in 0..n}

\* 'A', 'b', '%', '_'
InboundAlphabet == {65, 98, 37, 95}
InboundTexts == TextsOver(InboundAlphabet, MaxLen)

\* the workers that may hold an /edit request in flight
Workers == {"w1", "w2"}

(******************************* text helpers ******************************)

\* str.lower() on the code points up to U+00FF: A-Z and the Latin-1 capitals
LowerChar(c) ==
    IF c \in 65..90 \/ c \in 192..214 \/ c \in 216..222 THEN c + 32 ELSE c

Lower(s) == [i \in 1..Len(s) |-> LowerChar(s[i])]

\* the characters str.strip() and str.split() take for whitespace
\* (str.isspace() up to U+00FF)
SpaceChars == {9, 10, 11, 12, 13, 28, 29, 30, 31, 32, 133, 160}

IsSpace(c) == c \in SpaceChars

RECURSIVE LStripSet(_, _)
LStripSet(s, S) ==
    IF s # << >> /\ Head(s) \in S THEN LStripSet(Tail(s), S) ELSE s

RECURSIVE RStripSet(_, _)
RStripSet(s, S) ==
    IF s # << >> /\ s[Len(s)] \in S THEN RStripSet(SubSeq(s, 1, Len(s) - 1), S) ELSE s

StripSet(s, S) == RStripSet(LStripSet(s, S), S)

Strip(s) == StripSet(s, SpaceChars)

(************************* the TrainingData table **************************)

Columns == {"question", "answer", "link", "video", "picture", "document"}

TrainingData(question, answer, link, video, picture, document) ==
    [question |-> question, answer |-> answer, link |-> link, video |-> video,
     picture |-> picture, document |-> document]

SetMax(S) == CHOOSE m \in S : \A x \in S : x <= m

\* an id taken from the number of rows
NextIdByCount(table) == Cardinality(DOMAIN table) + 1

\* INTEGER PRIMARY KEY without AUTOINCREMENT: one more than the largest id in use
NextId(table) == IF DOMAIN table = {} THEN 1 ELSE SetMax(DOMAIN table) + 1

\* the rows in id order, as a table scan returns them
RECURSIVE IdsInOrder(_)
IdsInOrder(S) ==
    IF S = {} THEN << >>
    ELSE LET m == CHOOSE x \in S : \A y \in S : x <= y
         IN  <<m>> \o IdsInOrder(S \ {m})

\* lower() as the storage engine computes it: ASCII letters only
SqlLowerChar(c) == IF c \in 65..90 THEN c + 32 ELSE c

\* s LIKE p: '%' is any run of characters, '_' any one character, no escape
RECURSIVE LikeMatch(_, _)
LikeMatch(s, p) ==
    IF p = << >> THEN s = << >>
    ELSE IF Head(p) = 37
         THEN LikeMatch(s, Tail(p)) \/ (s # << >> /\ LikeMatch(Tail(s), p))
         ELSE /\ s # << >>
              /\ (Head(p) = 95 \/ SqlLowerChar(Head(p)) = SqlLowerChar(Head(s)))
              /\ LikeMatch(Tail(s), Tail(p))

\* question.ilike(pattern): lower(question) LIKE lower(pattern)
ILike(question, pattern) == LikeMatch(question, pattern)

\* a search the other way round: the rows whose question the query contains
search_questions_in_query(table, query) ==
    SelectSeq(IdsInOrder(DOMAIN table),
              LAMBDA id : ILike(query, <<37>> \o table[id].question \o <<37>>))

\* the ids of the rows whose question is ILIKE '%query%', in id order
search_training_data(table, query) ==
    SelectSeq(IdsInOrder(DOMAIN table),
              LAMBDA id : ILike(table[id].question, <<37>> \o query \o <<37>>))

(************************** the completion service *************************)

\* "I'm sorry, I couldn't process your request."
Apology ==
    <<73, 39, 109, 32, 115, 111, 114, 114, 121, 44, 32, 73, 32, 99, 111, 117,
      108, 100, 110, 39, 116, 32, 112, 114, 111, 99, 101, 115, 115, 32, 121,
      111, 117, 114, 32, 114, 101, 113, 117, 101, 115, 116, 46>>

\* what openai.ChatCompletion.create can do: answer with a content, raise
\* (network, auth, quota), or answer with a body that has no choice or no content
\* " g\n"
Contents == {<<32, 103, 10>>}
Outcomes ==
    {[kind |-> "ok", content |-> c] : c \in Contents}
        \cup {[kind |-> k, content |-> << >>] : k \in {"raise", "nochoices", "nullcontent"}}
NoCall == [kind |-> "nocall", content |-> << >>]

\* the statements of the try block that raise: the call itself, choices[0],
\* and .strip() of a content that is None
TryRaises(outcome) == outcome.kind \in {"raise", "nochoices", "nullcontent"}

\* an except clause for the service's own errors only
CaughtServiceErrorOnly(outcome) == outcome.kind = "raise"

\* except Exception: every exception the try block raises is caught
Caught(outcome) == TRUE

\* the content as it came, not stripped
AnswerUnstripped(outcome) == outcome.content

\* response.choices[0].message['content'].strip()
AnswerOf(outcome) == Strip(outcome.content)

\* the messages sent: the system line is fixed, the user content is the question
UserContents(question) == <<question>>

generate_answer(question, outcome) ==
    IF TryRaises(outcome)
    THEN IF Caught(outcome)
         THEN [raised |-> FALSE, answer |-> Apology, calls |-> UserContents(question)]
         ELSE [raised |-> TRUE, answer |-> << >>, calls |-> UserContents(question)]
    ELSE [raised |-> FALSE, answer |-> AnswerOf(outcome), calls |-> UserContents(question)]

(******************************** /chatgpt *********************************)

\* request.values.get('Body', '').lower()
IncomingQue(body) == Lower(body)

\* results[-1]
LastResult(results) == results[Len(results)]

\* results[0]
FirstResult(results) == results[1]

\* POST /chatgpt with Body = body; outcome is what the completion service
\* does if it is called
chatgpt(body, outcome) ==
    LET incoming_que == IncomingQue(body)
        results == search_training_data(store, incoming_que)
        gen == generate_answer(incoming_que, outcome)
    IN  /\ last' = IF results # << >>
                   THEN [op |-> "chat", status |-> "200", id |-> 0, body |-> body,
                         calls |-> << >>, outcome |-> NoCall,
                         answer |-> store[FirstResult(results)].answer]
                   ELSE [op |-> "chat", status |-> IF gen.raised THEN "500" ELSE "200",
                         id |-> 0, body |-> body, calls |-> gen.calls,
                         outcome |-> outcome, answer |-> gen.answer]
        /\ UNCHANGED <<store, blobs, sess>>

(****************************** file uploads *******************************)

\* 'uploads'
UPLOAD_FOLDER == <<117, 112, 108, 111, 97, 100, 115>>

\* {'png', 'jpg', 'jpeg', 'gif', 'pdf'}
ALLOWED_EXTENSIONS ==
    {<<112, 110, 103>>, <<106, 112, 103>>, <<106, 112, 101, 103>>,
     <<103, 105, 102>>, <<112, 100, 102>>}

\* filename.rsplit('.', 1)[1], for a filename that holds a '.'
RECURSIVE AfterLastDot(_)
AfterLastDot(s) ==
    IF s[Len(s)] = 46 THEN << >>
    ELSE AfterLastDot(SubSeq(s, 1, Len(s) - 1)) \o <<s[Len(s)]>>

HasDot(s) == \E i \in 1..Len(s) : s[i] = 46

\* the extension compared as it is written, not lower-cased
allowed_file_case_sensitive(filename) ==
    HasDot(filename) /\ AfterLastDot(filename) \in ALLOWED_EXTENSIONS

allowed_file(filename) ==
    HasDot(filename) /\ Lower(AfterLastDot(filename)) \in ALLOWED_EXTENSIONS

\* "_".join(s.split()): runs of whitespace become one '_', none at the ends
RECURSIVE JoinRuns(_)
JoinRuns(s) ==
    IF s = << >> THEN << >>
    ELSE IF IsSpace(Head(s))
         THEN IF Len(s) > 1 /\ IsSpace(s[2]) THEN JoinRuns(Tail(s))
              ELSE <<95>> \o JoinRuns(Tail(s))
         ELSE <<Head(s)>> \o JoinRuns(Tail(s))

\* [A-Za-z0-9_.-]
IsFilenameChar(c) ==
    c \in 65..90 \/ c \in 97..122 \/ c \in 48..57 \/ c \in {95, 46, 45}

\* werkzeug's secure_filename on ASCII names: '/' becomes a space, whitespace
\* runs become '_', other characters are dropped, '.' and '_' leave both ends
secure_filename(filename) ==
    LET spaced == [i \in 1..Len(filename) |->
                      IF filename[i] = 47 THEN 32 ELSE filename[i]]
        joined == JoinRuns(Strip(spaced))
        kept   == SelectSeq(joined, IsFilenameChar)
    IN  StripSet(kept, {46, 95})

\* os.path.join(UPLOAD_FOLDER, name)
JoinPath(name) == UPLOAD_FOLDER \o <<47>> \o name

\* 'picture' in request.files and picture and allowed_file(picture.filename):
\* a FileStorage is true when its filename is not empty
FileAccepted(part) ==
    part # None /\ part[1] # << >> /\ allowed_file(part[1])

SavedPath(part) == JoinPath(secure_filename(part[1]))

\* picture_path / document_path: the path the part was saved under, or None
UploadPath(part) == IF FileAccepted(part) THEN Some(SavedPath(part)) ELSE None

\* the paths the request's picture.save / document.save calls write
SavedBlobs(form) ==
    {p[1] : p \in {UploadPath(form.picture), UploadPath(form.document)} \ {None}}

(********************************** /add ***********************************)

\* what is kept of a finished /add, /edit or /delete request: its response
\* (status), the id it was about, the form of a request that committed,
\* whether its session held unwritten changes when it ended, and whether the
\* row it had loaded was no longer the stored one when it ended, the request
\* that finished before it being a committed edit of that row
Done(op, status, id, form, unwritten, raced) ==
    [op |-> op, status |-> status, id |-> id, form |-> form,
     unwritten |-> unwritten, raced |-> raced]

\* request.form['question'], request.form['answer']: KeyError when not sent
MissingRequired(form) == form.question = None \/ form.answer = None

\* the row lines 121-142 build from the form
NewData(form) ==
    TrainingData(form.question[1], form.answer[1], form.link, form.video,
                 UploadPath(form.picture), UploadPath(form.document))

\* db.session.add(new_data); db.session.commit()
Insert(table, row) ==
    [id \in DOMAIN table \cup {NextId(table)} |->
        IF id \in DOMAIN table THEN table[id] ELSE row]

\* an error branch that writes what the session holds
AfterErrorFlushed(table, pending) == pending

\* the except branch returns the error text without a commit: the request's
\* session is dropped with what it held (pending), the table stays as it is
AfterError(table, pending) == table

\* POST /add; fault: db.session.commit() raises
add_training_data(form, fault) ==
    /\ NextId(store) <= MaxId
    /\ IF MissingRequired(form)
       THEN /\ store' = AfterError(store, store)
            /\ blobs' = blobs
            /\ last' = Done("add", "error", 0, None, FALSE, FALSE)
       ELSE /\ blobs' = blobs \cup SavedBlobs(form)
            /\ IF fault
               THEN /\ store' = AfterError(store, Insert(store, NewData(form)))
                    /\ last' = Done("add", "error", 0, None, FALSE, FALSE)
               ELSE /\ store' = Insert(store, NewData(form))
                    /\ last' = Done("add", "redirect", NextId(store), Some(form), FALSE, FALSE)
    /\ UNCHANGED sess

(******************************* /edit/<id> ********************************)

NotFound == [status |-> "404", row |-> None]

\* TrainingData.query.get_or_404(id)
get_or_404(table, id) ==
    IF id \in DOMAIN table THEN [status |-> "200", row |-> Some(table[id])]
    ELSE NotFound

\* lines 168-185 on the loaded object: the assignments made before an
\* exception stay on the object
EditAssign(data, form) ==
    IF form.question = None THEN [raised |-> TRUE, data |-> data]
    ELSE IF form.answer = None
         THEN [raised |-> TRUE, data |-> [data EXCEPT !.question = form.question[1]]]
         ELSE [raised |-> FALSE,
               data |-> [data EXCEPT
                   !.question = form.question[1],
                   !.answer = form.answer[1],
                   !.link = form.link,
                   !.video = form.video,
                   !.picture = IF FileAccepted(form.picture)
                               THEN UploadPath(form.picture) ELSE @,
                   !.document = IF FileAccepted(form.document)
                                THEN UploadPath(form.document) ELSE @]]

\* a flush that writes every column of the object
DirtyAll(loaded, data) == Columns

\* the columns the flush writes: those whose value differs from the loaded one
Dirty(loaded, data) == {c \in Columns : data[c] # loaded[c]}

\* the UPDATE matches no row: the flush raises StaleDataError
Stale(table, id, loaded, data) ==
    Dirty(loaded, data) # {} /\ id \notin DOMAIN table

\* db.session.commit(): UPDATE ... SET <dirty columns> WHERE id = ?
Commit(table, id, loaded, data) ==
    LET dirty == Dirty(loaded, data)
    IN  IF dirty = {} THEN table
        ELSE [table EXCEPT ![id] =
                 [c \in Columns |-> IF c \in dirty THEN data[c] ELSE @[c]]]

\* the POST branch from the object `loaded`, read when the request began
EditPost(id, loaded, form, fault) ==
    LET a == EditAssign(loaded, form)
        pending == IF id \in DOMAIN store
                   THEN Commit(store, id, loaded, a.data) ELSE store
        unwritten == a.data # loaded
        raced == /\ id \in DOMAIN store /\ store[id] # loaded
                 /\ last.op = "edit" /\ last.status = "redirect" /\ last.id = id
    IN  IF a.raised
        THEN /\ store' = AfterError(store, pending)
             /\ blobs' = blobs
             /\ last' = Done("edit", "error", id, None, unwritten, raced)
        ELSE /\ blobs' = blobs \cup SavedBlobs(form)
             /\ IF fault \/ Stale(store, id, loaded, a.data)
                THEN /\ store' = AfterError(store, pending)
                     /\ last' = Done("edit", "error", id, None, unwritten, raced)
                ELSE /\ store' = Commit(store, id, loaded, a.data)
                     /\ last' = Done("edit", "redirect", id, Some(form), FALSE, raced)

\* POST /edit/<id>, handled without another request in between
edit_training_data(id, form, fault) ==
    /\ IF get_or_404(store, id) = NotFound
       THEN /\ last' = Done("edit", "404", id, None, FALSE, FALSE)
            /\ UNCHANGED <<store, blobs>>
       ELSE EditPost(id, store[id], form, fault)
    /\ UNCHANGED sess

\* GET /edit/<id>: the form filled with the row
edit_form(id) ==
    /\ last' = Done("get", get_or_404(store, id).status, id, None, FALSE, FALSE)
    /\ UNCHANGED <<store, blobs, sess>>

NoSess == [id |-> 0, loaded |-> None]

\* POST /edit/<id> on worker w, up to the row being loaded (line 165)
EditLoad(w, id) ==
    /\ sess[w] = NoSess
    /\ IF get_or_404(store, id) = NotFound
       THEN /\ last' = Done("edit", "404", id, None, FALSE, FALSE)
            /\ UNCHANGED sess
       ELSE /\ sess' = [sess EXCEPT ![w] = [id |-> id, loaded |-> Some(store[id])]]
            /\ UNCHANGED last
    /\ UNCHANGED <<store, blobs>>

\* the rest of that request (lines 166-191); other requests may have
\* committed since the row was loaded
EditFinish(w, form, fault) ==
    /\ sess[w] # NoSess
    /\ EditPost(sess[w].id, sess[w].loaded[1], form, fault)
    /\ sess' = [sess EXCEPT ![w] = NoSess]

(****************************** /delete/<id> *******************************)

\* a delete that takes the later rows with it
DeleteFrom(table, id) == [j \in {k \in DOMAIN table : k < id} |-> table[j]]

\* db.session.delete(data); db.session.commit()
DeleteRow(table, id) == [j \in DOMAIN table \ {id} |-> table[j]]

delete_training_data(id) ==
    /\ IF get_or_404(store, id) = NotFound
       THEN /\ last' = Done("delete", "404", id, None, FALSE, FALSE)
            /\ UNCHANGED store
       ELSE /\ store' = DeleteRow(store, id)
            /\ last' = Done("delete", "redirect", id, None, FALSE, FALSE)
    /\ UNCHANGED <<blobs, sess>>

(***************************** specifications ******************************)

Init ==
    /\ store = << >>
    /\ blobs = {}
    /\ sess = [w \in Workers |-> NoSess]
    /\ last = Done("none", "none", 0, None, FALSE, FALSE)

TextForm(q, a, l, v) ==
    [question |-> q, answer |-> a, link |-> l, video |-> v,
     picture |-> None, document |-> None]

\* "x", "y"
Answers == {<<120>>, <<121>>}

\* the questions stored under SpecChat: "a", "Ab", "%"
ChatQuestions == {<<97>>, <<65, 98>>, <<37>>}

ChatForms ==
    {TextForm(Some(q), Some(a), None, None) : q \in ChatQuestions, a \in Answers}

\* the responder over every store that adds, edits and deletes reach.  A
\* chat request changes nothing but `last`, so the replies taken after another
\* chat request are those taken before it: they are taken once
NextChat ==
    \/ \E form \in ChatForms : add_training_data(form, FALSE)
    \/ \E id \in Ids, form \in ChatForms : edit_training_data(id, form, FALSE)
    \/ \E id \in Ids : delete_training_data(id)
    \/ /\ last.op # "chat"
       /\ \E body \in InboundTexts :
            \E outcome \in IF search_training_data(store, IncomingQue(body)) # << >>
                           THEN {NoCall} ELSE Outcomes :
                chatgpt(body, outcome)

SpecChat == Init /\ [][NextChat]_vars

\* "q", "r"
CrudQuestions == {<<113>>, <<114>>}
\* absent, or "l"
Links == {None, Some(<<108>>)}
\* absent, or "v"
Videos == {None, Some(<<118>>)}

Optional(S) == {None} \cup {Some(x) : x \in S}

CrudForms ==
    {TextForm(q, a, l, v) :
        q \in Optional(CrudQuestions), a \in Optional(Answers), l \in Links, v \in Videos}

\* the record store under forms that send any subset of the text fields
NextCrud ==
    \/ \E form \in CrudForms : add_training_data(form, FALSE)
    \/ \E id \in Ids, form \in CrudForms : edit_training_data(id, form, FALSE)
    \/ \E id \in Ids : edit_form(id)
    \/ \E id \in Ids : delete_training_data(id)

SpecCrud == Init /\ [][NextCrud]_vars

\* picture parts: absent, an empty file input, "x.png", "x.exe"
PictureParts ==
    {None, Some(<< >>), Some(<<120, 46, 112, 110, 103>>), Some(<<120, 46, 101, 120, 101>>)}

\* document parts: absent, "../y.PDF", "pdf"
DocumentParts ==
    {None, Some(<<46, 46, 47, 121, 46, 80, 68, 70>>), Some(<<112, 100, 102>>)}

UploadForms ==
    {[question |-> Some(<<113>>), answer |-> Some(<<120>>), link |-> None, video |-> None,
      picture |-> p, document |-> d] : p \in PictureParts, d \in DocumentParts}

\* the record store under forms that carry file parts
NextUpload ==
    \/ \E form \in UploadForms : add_training_data(form, FALSE)
    \/ \E id \in Ids, form \in UploadForms : edit_training_data(id, form, FALSE)
    \/ \E id \in Ids : delete_training_data(id)

SpecUpload == Init /\ [][NextUpload]_vars

\* the forms (q, x), (r, x), (q, y), and (r) with no answer
RaceForms ==
    {TextForm(Some(<<113>>), Some(<<120>>), None, None),
     TextForm(Some(<<114>>), Some(<<120>>), None, None),
     TextForm(Some(<<113>>), Some(<<121>>), None, None),
     TextForm(Some(<<114>>), None, None, None)}

\* /edit requests of two workers interleaved with each other and with the
\* other requests: a request loads its row, others run, then it finishes
NextRace ==
    \/ \E form \in RaceForms, fault \in BOOLEAN : add_training_data(form, fault)
    \/ \E w \in Workers, id \in Ids : EditLoad(w, id)
    \/ \E w \in Workers, form \in RaceForms, fault \in BOOLEAN : EditFinish(w, form, fault)
    \/ \E id \in Ids : delete_training_data(id)

SpecRace == Init /\ [][NextRace]_vars

(************************** the responder's claims *************************)

\* x occurs in y as a run of consecutive characters
IsSubstring(x, y) ==
    \E i \in 0..(Len(y) - Len(x)) : SubSeq(y, i + 1, i + Len(x)) = x

\* s with its ASCII capitals lower-cased, every other character kept
AsciiLower(s) == [i \in 1..Len(s) |-> IF s[i] \in 65..90 THEN s[i] + 32 ELSE s[i]]

\* row id is found by the search the reply in `last` was computed from
Found(id) == LikeMatch(store[id].question, <<37>> \o Lower(last.body) \o <<37>>)

\* the reply in `last` is the answer of the first row, in id order, that the
\* search finds, that row is not after row id, and no completion was asked for
AnsweredByFirstUpTo(id) ==
    /\ last.calls = << >>
    /\ last.outcome = NoCall
    /\ \E j \in DOMAIN store :
          /\ j <= id
          /\ Found(j)
          /\ \A k \in DOMAIN store : k < j => ~Found(k)
          /\ last.answer = store[j].answer

\* C1 as stated: for every stored row (Q, A), a chat text equal to Q up to
\* letter case is answered with exactly A and without a completion call,
\* whatever other rows are stored.
C1_AnswersWithStoredAnswer ==
    last.op = "chat" =>
        \A id \in DOMAIN store :
            Lower(last.body) = Lower(store[id].question) =>
                last.calls = << >> /\ last.answer = store[id].answer

\* C1 amended: for every stored row (Q, A), a chat text whose lower-casing
\* equals Q up to ASCII letter case is answered from the table without a
\* completion call, with the answer of the first row in id order that the
\* search finds; that row is Q's row or an earlier one.
C1_AnswersWithFirstMatch ==
    last.op = "chat" =>
        \A id \in DOMAIN store :
            AsciiLower(Lower(last.body)) = AsciiLower(store[id].question) =>
                AnsweredByFirstUpTo(id)

\* a chat text equal to a stored question up to case was answered with the
\* different answer of an earlier row
C1_Witness ==
    /\ last.op = "chat"
    /\ \E id \in DOMAIN store, j \in DOMAIN store :
          /\ j < id
          /\ AsciiLower(Lower(last.body)) = AsciiLower(store[id].question)
          /\ last.answer = store[j].answer
          /\ store[j].answer # store[id].answer

IsTrimOf(t, s) ==
    /\ \E i \in 0..Len(s), j \in 0..Len(s) :
          /\ i + Len(t) + j = Len(s)
          /\ t = SubSeq(s, i + 1, i + Len(t))
          /\ \A k \in 1..i : s[k] \in SpaceChars
          /\ \A k \in (Len(s) - j + 1)..Len(s) : s[k] \in SpaceChars
    /\ t # << >> => t[1] \notin SpaceChars /\ t[Len(t)] \notin SpaceChars

\* C5: when the search finds no row for the chat text, the completion
\* service is called exactly once, with the lower-cased text as the user
\* content, and a successful call's content is the reply with its leading
\* and trailing whitespace removed.
C5_MissCallsCompletionOnce ==
    (last.op = "chat" /\ \A id \in DOMAIN store : ~Found(id)) =>
        /\ last.calls = <<Lower(last.body)>>
        /\ last.outcome.kind = "ok" =>
              /\ last.status = "200"
              /\ IsTrimOf(last.answer, last.outcome.content)

\* a text no stored row matches was answered by a successful completion
\* whose content had whitespace to remove
C5_Witness ==
    /\ last.op = "chat"
    /\ DOMAIN store # {}
    /\ last.body # << >>
    /\ last.outcome.kind = "ok"
    /\ Len(last.calls) = 1
    /\ last.answer # last.outcome.content

\* C6: when the completion call fails (it raises, or its response has no
\* choice or no content), the reply is the fixed apology and the request
\* still ends normally.
C6_FailureGivesApology ==
    (last.op = "chat" /\ last.outcome.kind \in {"raise", "nochoices", "nullcontent"}) =>
        last.status = "200" /\ last.answer = Apology

\* a malformed completion response was answered with the apology
C6_Witness ==
    /\ last.op = "chat"
    /\ last.outcome.kind = "nullcontent"
    /\ last.calls # << >>
    /\ last.answer = Apology

(************************* the record store's claims ***********************)

\* row with the fields the form sends put in place of its own, the others kept
Overlay(row, form) ==
    [row EXCEPT
        !.question = IF form.question # None THEN form.question[1] ELSE @,
        !.answer = IF form.answer # None THEN form.answer[1] ELSE @,
        !.link = IF form.link # None THEN form.link ELSE @,
        !.video = IF form.video # None THEN form.video ELSE @]

\* C3 as stated: an edit of a stored row overwrites the fields its form
\* sends and leaves every other field as it was, whatever subset of the
\* fields the form sends.
C3_EditOverwritesOnlySupplied ==
    [][\A id \in Ids, form \in CrudForms :
          (id \in DOMAIN store /\ edit_training_data(id, form, FALSE)) =>
              (id \in DOMAIN store' /\ store'[id] = Overlay(store[id], form))]_vars

\* C8: deleting a stored id removes that row and no other, after which the
\* id is not found; a get, an edit or a delete of an id that is not stored
\* ends in 404 and leaves the table as it is; and a row, once gone, can only
\* come back by an add.
C8_DeleteRemovesExactlyOne ==
    [][/\ last'.op = "delete" =>
             IF last'.id \in DOMAIN store
             THEN /\ last'.status = "redirect"
                  /\ DOMAIN store' = DOMAIN store \ {last'.id}
                  /\ \A j \in DOMAIN store' : store'[j] = store[j]
                  /\ get_or_404(store', last'.id) = NotFound
             ELSE last'.status = "404" /\ store' = store
       /\ (last'.op \in {"get", "edit", "delete"} /\ last'.id \notin DOMAIN store) =>
             last'.status = "404" /\ store' = store
       /\ (\E id \in DOMAIN store' : id \notin DOMAIN store) => last'.op = "add"]_vars

\* a stored row was deleted and another row is still there
C8_Witness ==
    /\ last.op = "delete"
    /\ last.status = "redirect"
    /\ last.id \notin DOMAIN store
    /\ DOMAIN store # {}

\* the form sends a question and an answer and nothing else
IsPlain(form) ==
    /\ form.question # None /\ form.answer # None
    /\ form.link = None /\ form.video = None
    /\ form.picture = None /\ form.document = None

\* C9: an add of (q, a) with nothing else stores, under a new id, the row
\* (q, a) with link, video, picture and document absent, which a get of that
\* id returns, and changes no row that was stored.
C9_InsertGetRoundTrip ==
    [][(last'.op = "add" /\ last'.status = "redirect" /\ IsPlain(last'.form[1])) =>
          /\ last'.id \notin DOMAIN store
          /\ DOMAIN store' = DOMAIN store \cup {last'.id}
          /\ \A j \in DOMAIN store : store'[j] = store[j]
          /\ get_or_404(store', last'.id) =
                [status |-> "200",
                 row |-> Some(TrainingData(last'.form[1].question[1],
                                           last'.form[1].answer[1],
                                           None, None, None, None))]]_vars

\* a plain add went in beside an earlier row
C9_Witness ==
    /\ last.op = "add"
    /\ last.status = "redirect"
    /\ IsPlain(last.form[1])
    /\ last.id \in DOMAIN store
    /\ \E j \in DOMAIN store : j < last.id

\* the filename has an extension, the part after its last '.', that is one
\* of the allowed ones up to letter case
HasAllowedExtension(name) ==
    \E i \in 1..Len(name) :
        /\ name[i] = 46
        /\ \A j \in (i + 1)..Len(name) : name[j] # 46
        /\ AsciiLower(SubSeq(name, i + 1, Len(name))) \in ALLOWED_EXTENSIONS

\* a file part that was sent with a filename of an allowed extension
IsValidUpload(part) == part # None /\ HasAllowedExtension(part[1])

\* "uploads/x.png"
XPngPath == <<117, 112, 108, 111, 97, 100, 115, 47, 120, 46, 112, 110, 103>>

\* the path recorded for a valid part: under the upload folder, the
\* sanitized name, which holds no '/' and starts with no '.', saved as a blob
IsRecordedPath(path, part, saved) ==
    /\ path = Some(JoinPath(secure_filename(part[1])))
    /\ path[1] \in saved
    /\ LET name == SubSeq(path[1], Len(UPLOAD_FOLDER) + 2, Len(path[1]))
       IN  name # << >> /\ name[1] # 46 /\ \A i \in 1..Len(name) : name[i] # 47
    /\ part[1] = <<120, 46, 112, 110, 103>> => path[1] = XPngPath

\* C7: an add records a picture/document path exactly for a part sent with
\* an allowed extension, the path of the blob saved under the sanitized
\* name, and otherwise records none and raises no error; an edit sets the
\* path the same way for such a part and otherwise leaves the stored path.
C7_PathOnlyForAllowedFile ==
    [][(last'.op \in {"add", "edit"} /\ last'.form # None) =>
          /\ last'.status = "redirect"
          /\ \A f \in {"picture", "document"} :
                LET part == last'.form[1][f]
                    path == store'[last'.id][f]
                IN  IF IsValidUpload(part) THEN IsRecordedPath(path, part, blobs')
                    ELSE IF last'.op = "add" THEN path = None
                    ELSE path = store[last'.id][f]]_vars

\* an edit that sent "x.exe" as the picture left the stored picture path,
\* and its "../y.PDF" document was recorded
C7_Witness ==
    /\ last.op = "edit"
    /\ last.status = "redirect"
    /\ last.form[1].picture = Some(<<120, 46, 101, 120, 101>>)
    /\ last.form[1].document = Some(<<46, 46, 47, 121, 46, 80, 68, 70>>)
    /\ store[last.id].picture = Some(XPngPath)
    /\ store[last.id].document # None

(*************************** the claims on races ***************************)

\* C4 as stated: when an edit commits after another edit of the same row
\* committed in between its load and its commit, the stored row holds
\* exactly the values the later one submitted.
C4_LastWriterWinsWholeRow ==
    (last.op = "edit" /\ last.status = "redirect" /\ last.raced
        /\ last.id \in DOMAIN store) =>
        /\ store[last.id].question = last.form[1].question[1]
        /\ store[last.id].answer = last.form[1].answer[1]

\* C4 amended: an edit that commits writes the fields whose submitted value
\* differs from the value it loaded and no other: each such field holds the
\* submitted value, every other field and every other row stays as stored,
\* so after two interleaved edits the row can mix fields of both.
C4_LastWriterWinsPerField ==
    [][\A w \in Workers :
          (sess[w] # NoSess /\ sess'[w] = NoSess /\ last'.status = "redirect"
              /\ sess[w].id \in DOMAIN store) =>
              LET id == sess[w].id
                  loaded == sess[w].loaded[1]
                  sent == Overlay(loaded, last'.form[1])
              IN  /\ DOMAIN store' = DOMAIN store
                  /\ \A j \in DOMAIN store \ {id} : store'[j] = store[j]
                  /\ \A c \in Columns :
                        store'[id][c] = IF sent[c] # loaded[c] THEN sent[c]
                                        ELSE store[id][c]]_vars

\* after two interleaved edits of a row, it holds the question of the one
\* that committed first and the answer of the one that committed last
C4_Witness ==
    /\ last.op = "edit"
    /\ last.status = "redirect"
    /\ last.raced
    /\ last.id \in DOMAIN store
    /\ store[last.id].question # last.form[1].question[1]
    /\ store[last.id].answer = last.form[1].answer[1]

\* C10: a request that ends in the error text leaves the table as it was:
\* no row is added and no field of a row differs; its session is gone, and
\* a request that loads a row afterwards loads it as stored.
C10_ErrorLeavesStoreUnchanged ==
    [][last'.status = "error" =>
          /\ store' = store
          /\ \A w \in Workers :
                sess'[w] # sess[w] =>
                    \/ sess'[w] = NoSess
                    \/ sess'[w].loaded = Some(store'[sess'[w].id])]_vars

\* an edit ended in the error text after it had assigned to the loaded row
C10_Witness ==
    /\ last.op = "edit"
    /\ last.status = "error"
    /\ last.unwritten
    /\ last.id \in DOMAIN store

=============================================================================
